---- MODULE Spec2Model ----
(***************************************************************************)
(* use-http-service: a React hook wrapping one fetch request to a JSON     *)
(* HTTP service (src/src/index.ts).  The model follows callService through *)
(* its suspension points (await fetch, await res.json(), await of the      *)
(* handleResponse / handleError promises) for a bounded number of          *)
(* invocations that may overlap, all writing the four useState cells of    *)
(* useRequestState.  A call of setRequestState is one synchronous run of   *)
(* the setter and is modelled as one atomic merge of the cells.            *)
(***************************************************************************)
EXTENDS Integers, Sequences, FiniteSets, TLC

(***************************************************************************)
(* Bounds.                                                                 *)
(***************************************************************************)
\* number of invocations of execute (callService) in one behaviour
MaxCalls == 2

Calls == 1..MaxCalls

(***************************************************************************)
(* JavaScript values: <<type, payload>>, both strings.                     *)
(***************************************************************************)
Undefined == <<"undefined", "">>
JsFalse == <<"boolean", "false">>
JsZero == <<"number", "0">>
PostObject == <<"object", "title=foo">>
SuccessObject == <<"object", "msg=success!">>
FailureObject == <<"object", "errorMsg=error!">>

\* ToBoolean of a value, as applied by `!!body`
Truthy(v) ==
  CASE v[1] = "undefined" -> FALSE
    [] v[1] = "null" -> FALSE
    [] v[1] = "boolean" -> v[2] = "true"
    [] v[1] = "number" -> v[2] # "0"
    [] v[1] = "string" -> v[2] # ""
    [] OTHER -> TRUE

\* JSON.stringify on the values used as request bodies
JSONstringify(v) ==
  CASE v = JsFalse -> "false"
    [] v = JsZero -> "0"
    [] v = PostObject -> "{\"title\":\"foo\"}"
    [] v = SuccessObject -> "{\"msg\":\"success!\"}"
    [] v = FailureObject -> "{\"errorMsg\":\"error!\"}"

\* the body texts a server may send
BodyTexts == {"{\"msg\":\"success!\"}", "{\"errorMsg\":\"error!\"}", "not json"}

\* whether Response.json() fulfils on a body text
JsonDecodes(text) == text \in {"{\"msg\":\"success!\"}", "{\"errorMsg\":\"error!\"}"}

\* the value Response.json() fulfils with
JsonValue(text) ==
  CASE text = "{\"msg\":\"success!\"}" -> SuccessObject
    [] text = "{\"errorMsg\":\"error!\"}" -> FailureObject

\* the arguments execute is called with
BodyArgs == {Undefined, JsZero, PostObject}

(***************************************************************************)
(* Service descriptors.  hasHeaders is false when service.headers is       *)
(* undefined; otherwise headers is the sequence of <<name, value>> pairs   *)
(* in the order Object.keys enumerates them.                               *)
(***************************************************************************)
NoHeaders == <<>>

Services ==
  { [url |-> "/example", method |-> "GET", hasHeaders |-> FALSE, headers |-> NoHeaders],
    [url |-> "/example", method |-> "POST", hasHeaders |-> TRUE,
     headers |-> << <<"Authorization", "Bearer a.jwt.token">> >>],
    [url |-> "/example", method |-> "PUT", hasHeaders |-> TRUE,
     headers |-> << <<"content-type", "text/plain">>, <<"ACCEPT", "text/html">>,
                    <<"Content-Type", "text/xml">> >>] }

(***************************************************************************)
(* The Headers class of the Fetch API: names are case-insensitive, append  *)
(* adds a value to the list of a name, set replaces the list.              *)
(***************************************************************************)
LowerCase(name) ==
  CASE name \in {"Content-Type", "content-type", "CONTENT-TYPE"} -> "content-type"
    [] name \in {"Accept", "accept", "ACCEPT"} -> "accept"
    [] name \in {"Authorization", "authorization"} -> "authorization"

HeaderNames == {"content-type", "accept", "authorization"}

\* set implemented as append: earlier values of the name are kept
HeadersSetKeepsOld(h, name, value) ==
  [h EXCEPT ![LowerCase(name)] = Append(@, value)]

\* new Headers()
EmptyHeaders == [n \in HeaderNames |-> <<>>]

HeadersAppend(h, name, value) ==
  [h EXCEPT ![LowerCase(name)] = Append(@, value)]

HeadersSet(h, name, value) ==
  [h EXCEPT ![LowerCase(name)] = <<value>>]

RECURSIVE AppendAll(_, _)
\* the for-loop of buildHeaders over Object.keys(headers)
AppendAll(h, pairs) ==
  IF pairs = <<>> THEN h
  ELSE AppendAll(HeadersAppend(h, Head(pairs)[1], Head(pairs)[2]), Tail(pairs))

buildHeaders(svc) ==
  LET out == IF svc.hasHeaders THEN AppendAll(EmptyHeaders, svc.headers) ELSE EmptyHeaders
  IN HeadersSet(HeadersSet(out, "Content-Type", "application/json"),
                "Accept", "application/json")

\* the request body: [present |-> FALSE] stands for body: undefined
NoBody == [present |-> FALSE, text |-> ""]

buildBody(body) ==
  IF Truthy(body) THEN [present |-> TRUE, text |-> JSONstringify(body)] ELSE NoBody

(***************************************************************************)
(* The request state of useRequestState.                                   *)
(***************************************************************************)
\* a partial state: an omitted field is Undefined, and so is isPending /
\* isSuccess when omitted (a boolean is <<"boolean", ...>> here)
JsBool(b) == IF b THEN <<"boolean", "true">> ELSE JsFalse

Partial(p, s, d, e) == [isPending |-> p, isSuccess |-> s, data |-> d, error |-> e]

\* isPending initialised to true
InitialRequestStatePending == Partial(JsBool(TRUE), JsFalse, Undefined, Undefined)

\* the initial values of the four useState cells
InitialRequestState == Partial(JsFalse, JsFalse, Undefined, Undefined)

\* data and error written unconditionally, so an omitted field clears the cell
setRequestStateClearing(st, newState) ==
  [isPending |-> IF newState.isPending # Undefined THEN newState.isPending ELSE st.isPending,
   isSuccess |-> IF newState.isSuccess # Undefined THEN newState.isSuccess ELSE st.isSuccess,
   data |-> newState.data,
   error |-> newState.error]

\* setRequestState: each cell is written iff the field is not undefined
setRequestState(st, newState) ==
  [isPending |-> IF newState.isPending # Undefined THEN newState.isPending ELSE st.isPending,
   isSuccess |-> IF newState.isSuccess # Undefined THEN newState.isSuccess ELSE st.isSuccess,
   data |-> IF newState.data # Undefined THEN newState.data ELSE st.data,
   error |-> IF newState.error # Undefined THEN newState.error ELSE st.error]

\* the partial states the code passes to setRequestState
InitPartial == Partial(JsBool(TRUE), Undefined, Undefined, Undefined)

CleanupPartial == Partial(JsFalse, Undefined, Undefined, Undefined)

ResponsePartial(data) == Partial(JsFalse, JsBool(TRUE), data, Undefined)

ErrorPartial(data) == Partial(JsFalse, JsFalse, Undefined, data)

\* init() also resetting isSuccess
initFlagReset(st) ==
  setRequestState(st, Partial(JsBool(TRUE), JsFalse, Undefined, Undefined))

\* init() also clearing the outcome of the previous cycle
initResetting(st) ==
  [isPending |-> JsBool(TRUE), isSuccess |-> JsFalse, data |-> Undefined, error |-> Undefined]

\* init() writing nothing
initSkipped(st) == st

\* init(): setRequestState({ isPending: true })
init(st) == setRequestState(st, InitPartial)

\* cleanup() also dropping the stored bodies
cleanupResetting(st) ==
  [isPending |-> JsFalse, isSuccess |-> st.isSuccess, data |-> Undefined, error |-> Undefined]

\* cleanup() writing nothing
cleanupSkipped(st) == st

\* cleanup(): setRequestState({ isPending: false })
cleanup(st) == setRequestState(st, CleanupPartial)

\* handleResponse keeping the data of an earlier response: first write wins
handleResponseWriteFirstWins(st, data) ==
  IF st.data # Undefined
    THEN setRequestState(st, Partial(JsFalse, Undefined, Undefined, Undefined))
    ELSE setRequestState(st, Partial(JsFalse, JsBool(TRUE), data, Undefined))

\* handleResponse leaving isPending to cleanup
handleResponseWriteKeepsPending(st, data) ==
  setRequestState(st, Partial(Undefined, JsBool(TRUE), data, Undefined))

\* handleResponse forgetting to store the decoded body
handleResponseWriteNoData(st, data) ==
  setRequestState(st, Partial(JsFalse, JsBool(TRUE), Undefined, Undefined))

\* the write of handleResponse after res.json() fulfilled with data
handleResponseWrite(st, data) == setRequestState(st, ResponsePartial(data))

\* handleError storing the error without resetting isSuccess
handleErrorWriteKeepsFlag(st, data) ==
  setRequestState(st, Partial(JsFalse, Undefined, Undefined, data))

\* the write of handleError after err.res.json() fulfilled with data
handleErrorWrite(st, data) == setRequestState(st, ErrorPartial(data))

(***************************************************************************)
(* Results and responses.  A Result is read through its properties, so a   *)
(* property the object literal does not have reads as Undefined.  The      *)
(* spread of res adds the own enumerable properties of the Response, none  *)
(* of which is named isOk, data or error.                                  *)
(***************************************************************************)
SuccessResult(data) == [isOk |-> TRUE, data |-> data, error |-> Undefined]

\* the catch branch building a result tagged as a success
ErrorResultTaggedOk(error) == [isOk |-> TRUE, data |-> Undefined, error |-> error]

ErrorResult(error) == [isOk |-> FALSE, data |-> Undefined, error |-> error]

NoResult == [isOk |-> FALSE, data |-> Undefined, error |-> Undefined]

\* a Response: res.ok and the text of its body
Responses == [ok : BOOLEAN, text : BodyTexts]

NoResponse == [ok |-> FALSE, text |-> ""]

NoFetch ==
  [url |-> "", method |-> "", headers |-> EmptyHeaders, body |-> NoBody]

(***************************************************************************)
(* The overwrite-style version of the hook.  Its handlers build a full     *)
(* state by spreading the state their render captured (held), and its      *)
(* setter writes the cells whose new value is not identical (!==) to the   *)
(* value the render captured.  It has no init: isPending is never set to   *)
(* true.                                                                   *)
(***************************************************************************)
MaxAwaited == 3

\* a !== b, where fresh tells that a was decoded by this invocation: an
\* object just decoded is identical to no value that existed before
NotIdentical(a, b, fresh) ==
  IF fresh /\ a[1] = "object" THEN TRUE ELSE a # b

OverwriteInitialRequestState == Partial(JsFalse, JsFalse, Undefined, Undefined)

\* the setter writing every cell of its argument, without comparing
overwriteSetRequestStateUnconditional(st, held, newState, fresh) == newState

overwriteSetRequestState(st, held, newState, fresh) ==
  [c \in {"isPending", "isSuccess", "data", "error"} |->
     IF NotIdentical(newState[c], held[c], c \in fresh)
       THEN newState[c] ELSE st[c]]

overwriteHandleResponseWrite(st, held, data) ==
  overwriteSetRequestState(st, held,
    [held EXCEPT !.isPending = JsFalse, !.isSuccess = JsBool(TRUE), !.data = data],
    {"data"})

overwriteHandleErrorWrite(st, held, data) ==
  overwriteSetRequestState(st, held,
    [held EXCEPT !.isPending = JsFalse, !.isSuccess = JsFalse, !.error = data],
    {"error"})

overwriteCleanup(st, held) ==
  overwriteSetRequestState(st, held, [held EXCEPT !.isPending = JsFalse], {})

\* how an awaited invocation ended: the promise's fate, the error it
\* rejected with and the Result it resolved with
NotSettled == [settled |-> "none", exc |-> "none", out |-> NoResult]

Resolved(result) == [settled |-> "resolved", exc |-> "none", out |-> result]

Rejected(e) == [settled |-> "rejected", exc |-> e, out |-> NoResult]

\* one awaited invocation of the overwrite-style callService that receives
\* response r, made through the execute of the render that captured held
overwriteCallService(st, held, r) ==
  CASE r.ok /\ JsonDecodes(r.text) ->
         [state |-> overwriteCleanup(
                      overwriteHandleResponseWrite(st, held, JsonValue(r.text)), held),
          end |-> Resolved(SuccessResult(JsonValue(r.text)))]
    [] ~r.ok /\ JsonDecodes(r.text) ->
         [state |-> overwriteCleanup(
                      overwriteHandleErrorWrite(st, held, JsonValue(r.text)), held),
          end |-> Resolved(ErrorResult(JsonValue(r.text)))]
    [] OTHER ->
         [state |-> overwriteCleanup(st, held), end |-> Rejected("DecodeError")]

\* one awaited invocation of the merge-style callService that receives
\* response r: init, handleResponse or handleError, cleanup
mergeCallService(st, r) ==
  CASE r.ok /\ JsonDecodes(r.text) ->
         [state |-> cleanup(handleResponseWrite(init(st), JsonValue(r.text))),
          end |-> Resolved(SuccessResult(JsonValue(r.text)))]
    [] ~r.ok /\ JsonDecodes(r.text) ->
         [state |-> cleanup(handleErrorWrite(init(st), JsonValue(r.text))),
          end |-> Resolved(ErrorResult(JsonValue(r.text)))]
    [] OTHER ->
         [state |-> cleanup(init(st)), end |-> Rejected("DecodeError")]

VARIABLES
  service,       \* the descriptor the hook was created with
  requestState,  \* the four useState cells
  pc,            \* pc[i]: where invocation i of callService is suspended
  res,           \* res[i]: the Response fetch resolved with
  exc,           \* exc[i]: the error in flight inside invocation i
  ret,           \* ret[i]: the value handleResponse / handleError returned
  settled,       \* settled[i]: "none", "resolved" or "rejected"
  out,           \* out[i]: the Result invocation i resolved with
  lastFetch,     \* the arguments of the latest call of fetch
  lastArg,       \* the requestBody argument of the latest invocation
  fetchCount,    \* number of calls of fetch
  pre,           \* pre[i]: the request state when invocation i started
  overlapped,    \* overlapped[i]: another invocation was in flight with i
  lastPartial,   \* the argument of the latest call of setRequestState
  setterCalls,   \* number of calls of setRequestState
  writes,        \* per cell: the invocation that last passed a value, and the value
  lastSettled,   \* the invocation that settled most recently, 0 if none
  mgState,       \* the cells of a merge-style hook used by awaited invocations
  ovState,       \* the cells of an overwrite-style hook given the same responses
  ovHeld,        \* the state captured by the render whose execute the caller holds
  ovStale,       \* an invocation used an execute whose captured state was outdated
  mgLast,        \* how the latest awaited invocation of the merge-style hook settled
  ovLast,        \* how the latest awaited invocation of the overwrite-style hook settled
  awaited        \* number of awaited invocations made on the two hooks

\* the state of the hook whose invocations may overlap
hookVars == <<service, requestState, pc, res, exc, ret, settled, out, lastFetch,
              lastArg, fetchCount, pre, overlapped, lastPartial, setterCalls,
              writes, lastSettled>>

\* the state of the two hooks compared on awaited invocations
versionVars == <<mgState, ovState, ovHeld, ovStale, mgLast, ovLast, awaited>>

vars == <<hookVars, versionVars>>

InFlight(i) == pc[i] \notin {"idle", "done"}

\* no handler has passed a value for any cell yet
NoWrites ==
  [isSuccess |-> [by |-> 0, value |-> JsFalse],
   data |-> [by |-> 0, value |-> Undefined],
   error |-> [by |-> 0, value |-> Undefined]]

\* the state after useHttpService(service) has rendered once
Init ==
  /\ service \in Services
  /\ requestState = InitialRequestState
  /\ pc = [i \in Calls |-> "idle"]
  /\ res = [i \in Calls |-> NoResponse]
  /\ exc = [i \in Calls |-> "none"]
  /\ ret = [i \in Calls |-> Undefined]
  /\ settled = [i \in Calls |-> "none"]
  /\ out = [i \in Calls |-> NoResult]
  /\ lastFetch = NoFetch
  /\ lastArg = Undefined
  /\ fetchCount = 0
  /\ pre = [i \in Calls |-> InitialRequestState]
  /\ overlapped = [i \in Calls |-> FALSE]
  /\ lastPartial = Partial(Undefined, Undefined, Undefined, Undefined)
  /\ setterCalls = 0
  /\ writes = NoWrites
  /\ lastSettled = 0
  /\ mgState = InitialRequestState
  /\ ovState = OverwriteInitialRequestState
  /\ ovHeld = OverwriteInitialRequestState
  /\ ovStale = FALSE
  /\ mgLast = NotSettled
  /\ ovLast = NotSettled
  /\ awaited = 0

\* callService issuing the request a second time
CallFetchingTwice(i, requestBody) ==
  /\ pc[i] = "idle"
  /\ \A j \in Calls : j < i => pc[j] # "idle"
  /\ requestState' = init(requestState)
  /\ lastFetch' = [url |-> service.url, method |-> service.method,
                   headers |-> buildHeaders(service), body |-> buildBody(requestBody)]
  /\ lastArg' = requestBody
  /\ fetchCount' = fetchCount + 2
  /\ pc' = [pc EXCEPT ![i] = "fetch"]
  /\ pre' = [pre EXCEPT ![i] = requestState]
  /\ overlapped' = [j \in Calls |->
                      IF j = i THEN \E k \in Calls : InFlight(k)
                      ELSE overlapped[j] \/ InFlight(j)]
  /\ lastPartial' = InitPartial
  /\ setterCalls' = setterCalls + 1
  /\ UNCHANGED <<service, res, exc, ret, settled, out, writes, lastSettled>>
  /\ UNCHANGED versionVars

\* callService up to `await fetch(...)`: init, buildHeaders, buildBody, fetch
Call(i, requestBody) ==
  /\ pc[i] = "idle"
  /\ \A j \in Calls : j < i => pc[j] # "idle"
  /\ requestState' = init(requestState)
  /\ lastFetch' = [url |-> service.url, method |-> service.method,
                   headers |-> buildHeaders(service), body |-> buildBody(requestBody)]
  /\ lastArg' = requestBody
  /\ fetchCount' = fetchCount + 1
  /\ pc' = [pc EXCEPT ![i] = "fetch"]
  /\ pre' = [pre EXCEPT ![i] = requestState]
  /\ overlapped' = [j \in Calls |->
                      IF j = i THEN \E k \in Calls : InFlight(k)
                      ELSE overlapped[j] \/ InFlight(j)]
  /\ UNCHANGED <<service, res, exc, ret, settled, out>>
  /\ lastPartial' = InitPartial
  /\ setterCalls' = setterCalls + 1
  /\ UNCHANGED <<writes, lastSettled>>
  /\ UNCHANGED versionVars

\* fetch fulfils with a Response; handleResponse runs up to its first await
FetchResolve(i, r) ==
  /\ pc[i] = "fetch"
  /\ res' = [res EXCEPT ![i] = r]
  /\ IF ~r.ok
       THEN /\ exc' = [exc EXCEPT ![i] = "ServiceRequestError"]
            /\ pc' = [pc EXCEPT ![i] = "hrThrown"]
       ELSE /\ exc' = exc
            /\ pc' = [pc EXCEPT ![i] = "json"]
  /\ UNCHANGED <<service, requestState, ret, settled, out, lastFetch, lastArg,
                 fetchCount, pre, overlapped>>
  /\ UNCHANGED <<lastPartial, setterCalls, writes, lastSettled>>
  /\ UNCHANGED versionVars

\* fetch awaited inside the try: the catch records the failure in the state
FetchRejectRecorded(i) ==
  /\ pc[i] = "fetch"
  /\ exc' = [exc EXCEPT ![i] = "TransportError"]
  /\ requestState' = cleanup(handleErrorWrite(requestState, FailureObject))
  /\ settled' = [settled EXCEPT ![i] = "rejected"]
  /\ pc' = [pc EXCEPT ![i] = "done"]
  /\ UNCHANGED <<service, res, ret, out, lastFetch, lastArg,
                 fetchCount, pre, overlapped>>
  /\ lastSettled' = i
  /\ lastPartial' = CleanupPartial
  /\ setterCalls' = setterCalls + 1
  /\ UNCHANGED writes
  /\ UNCHANGED versionVars

\* fetch rejects: the await is outside the try, callService rejects
FetchReject(i) ==
  /\ pc[i] = "fetch"
  /\ exc' = [exc EXCEPT ![i] = "TransportError"]
  /\ settled' = [settled EXCEPT ![i] = "rejected"]
  /\ pc' = [pc EXCEPT ![i] = "done"]
  /\ UNCHANGED <<service, requestState, res, ret, out, lastFetch, lastArg,
                 fetchCount, pre, overlapped>>
  /\ lastSettled' = i
  /\ UNCHANGED <<lastPartial, setterCalls, writes>>
  /\ UNCHANGED versionVars

\* handleResponse: res.json() fulfils, the state is written, data returned
JsonResolve(i) ==
  /\ pc[i] = "json"
  /\ JsonDecodes(res[i].text)
  /\ requestState' = handleResponseWrite(requestState, JsonValue(res[i].text))
  /\ ret' = [ret EXCEPT ![i] = JsonValue(res[i].text)]
  /\ pc' = [pc EXCEPT ![i] = "hrReturned"]
  /\ UNCHANGED <<service, res, exc, settled, out, lastFetch, lastArg,
                 fetchCount, pre, overlapped>>
  /\ lastPartial' = ResponsePartial(JsonValue(res[i].text))
  /\ setterCalls' = setterCalls + 1
  /\ writes' = [writes EXCEPT !.isSuccess = [by |-> i, value |-> JsBool(TRUE)],
                              !.data = [by |-> i, value |-> JsonValue(res[i].text)]]
  /\ UNCHANGED lastSettled
  /\ UNCHANGED versionVars

\* handleResponse: res.json() rejects, handleResponse rejects with it
JsonReject(i) ==
  /\ pc[i] = "json"
  /\ ~JsonDecodes(res[i].text)
  /\ exc' = [exc EXCEPT ![i] = "DecodeError"]
  /\ pc' = [pc EXCEPT ![i] = "hrThrown"]
  /\ UNCHANGED <<service, requestState, res, ret, settled, out, lastFetch,
                 lastArg, fetchCount, pre, overlapped>>
  /\ UNCHANGED <<lastPartial, setterCalls, writes, lastSettled>>
  /\ UNCHANGED versionVars

\* callService returning the result without running the finally block
ReturnSuccessBeforeCleanup(i) ==
  /\ pc[i] = "hrReturned"
  /\ out' = [out EXCEPT ![i] = SuccessResult(ret[i])]
  /\ settled' = [settled EXCEPT ![i] = "resolved"]
  /\ pc' = [pc EXCEPT ![i] = "done"]
  /\ lastSettled' = i
  /\ UNCHANGED <<service, requestState, res, exc, ret, lastFetch, lastArg,
                 fetchCount, pre, overlapped, lastPartial, setterCalls, writes>>
  /\ UNCHANGED versionVars

\* callService resumes after `await handleResponse(res)`: out, finally, return
ReturnSuccess(i) ==
  /\ pc[i] = "hrReturned"
  /\ out' = [out EXCEPT ![i] = SuccessResult(ret[i])]
  /\ requestState' = cleanup(requestState)
  /\ settled' = [settled EXCEPT ![i] = "resolved"]
  /\ pc' = [pc EXCEPT ![i] = "done"]
  /\ UNCHANGED <<service, res, exc, ret, lastFetch, lastArg, fetchCount, pre,
                 overlapped>>
  /\ lastPartial' = CleanupPartial
  /\ setterCalls' = setterCalls + 1
  /\ lastSettled' = i
  /\ UNCHANGED writes
  /\ UNCHANGED versionVars

\* handleError failing to recognise ServiceRequestError and rethrowing it
CatchRethrowing(i) ==
  /\ pc[i] = "hrThrown"
  /\ pc' = [pc EXCEPT ![i] = "heThrown"]
  /\ UNCHANGED <<service, requestState, res, exc, ret, settled, out, lastFetch,
                 lastArg, fetchCount, pre, overlapped>>
  /\ UNCHANGED <<lastPartial, setterCalls, writes, lastSettled>>
  /\ UNCHANGED versionVars

\* the catch block: handleError runs up to its first await, or rethrows
Catch(i) ==
  /\ pc[i] = "hrThrown"
  /\ IF exc[i] = "ServiceRequestError"
       THEN pc' = [pc EXCEPT ![i] = "errJson"]
       ELSE pc' = [pc EXCEPT ![i] = "heThrown"]
  /\ UNCHANGED <<service, requestState, res, exc, ret, settled, out, lastFetch,
                 lastArg, fetchCount, pre, overlapped>>
  /\ UNCHANGED <<lastPartial, setterCalls, writes, lastSettled>>
  /\ UNCHANGED versionVars

\* handleError: err.res.json() fulfils, the state is written, data returned
ErrJsonResolve(i) ==
  /\ pc[i] = "errJson"
  /\ JsonDecodes(res[i].text)
  /\ requestState' = handleErrorWrite(requestState, JsonValue(res[i].text))
  /\ ret' = [ret EXCEPT ![i] = JsonValue(res[i].text)]
  /\ pc' = [pc EXCEPT ![i] = "heReturned"]
  /\ UNCHANGED <<service, res, exc, settled, out, lastFetch, lastArg,
                 fetchCount, pre, overlapped>>
  /\ lastPartial' = ErrorPartial(JsonValue(res[i].text))
  /\ setterCalls' = setterCalls + 1
  /\ writes' = [writes EXCEPT !.isSuccess = [by |-> i, value |-> JsFalse],
                              !.error = [by |-> i, value |-> JsonValue(res[i].text)]]
  /\ UNCHANGED lastSettled
  /\ UNCHANGED versionVars

\* handleError: err.res.json() rejects, handleError rejects with it
ErrJsonReject(i) ==
  /\ pc[i] = "errJson"
  /\ ~JsonDecodes(res[i].text)
  /\ exc' = [exc EXCEPT ![i] = "DecodeError"]
  /\ pc' = [pc EXCEPT ![i] = "heThrown"]
  /\ UNCHANGED <<service, requestState, res, ret, settled, out, lastFetch,
                 lastArg, fetchCount, pre, overlapped>>
  /\ UNCHANGED <<lastPartial, setterCalls, writes, lastSettled>>
  /\ UNCHANGED versionVars

\* callService issuing the request again instead of returning the error result
ReturnErrorRetrying(i) ==
  /\ pc[i] = "heReturned"
  /\ pc' = [pc EXCEPT ![i] = "fetch"]
  /\ UNCHANGED <<service, requestState, res, exc, ret, settled, out, lastFetch,
                 lastArg, fetchCount, pre, overlapped, lastPartial, setterCalls,
                 writes, lastSettled>>
  /\ UNCHANGED versionVars

\* callService resumes after `await handleError(e)`: out, finally, return
ReturnError(i) ==
  /\ pc[i] = "heReturned"
  /\ out' = [out EXCEPT ![i] = ErrorResult(ret[i])]
  /\ requestState' = cleanup(requestState)
  /\ settled' = [settled EXCEPT ![i] = "resolved"]
  /\ pc' = [pc EXCEPT ![i] = "done"]
  /\ UNCHANGED <<service, res, exc, ret, lastFetch, lastArg, fetchCount, pre,
                 overlapped>>
  /\ lastPartial' = CleanupPartial
  /\ setterCalls' = setterCalls + 1
  /\ lastSettled' = i
  /\ UNCHANGED writes
  /\ UNCHANGED versionVars

\* handleError rejected: finally runs cleanup, callService rejects with exc
Rethrow(i) ==
  /\ pc[i] = "heThrown"
  /\ requestState' = cleanup(requestState)
  /\ settled' = [settled EXCEPT ![i] = "rejected"]
  /\ pc' = [pc EXCEPT ![i] = "done"]
  /\ UNCHANGED <<service, res, exc, ret, out, lastFetch, lastArg, fetchCount,
                 pre, overlapped>>
  /\ lastPartial' = CleanupPartial
  /\ setterCalls' = setterCalls + 1
  /\ lastSettled' = i
  /\ UNCHANGED writes
  /\ UNCHANGED versionVars

Next ==
  \E i \in Calls :
    \/ \E requestBody \in BodyArgs : Call(i, requestBody)
    \/ \E r \in Responses : FetchResolve(i, r)
    \/ FetchReject(i)
    \/ JsonResolve(i)
    \/ JsonReject(i)
    \/ ReturnSuccess(i)
    \/ Catch(i)
    \/ ErrJsonResolve(i)
    \/ ErrJsonReject(i)
    \/ ReturnError(i)
    \/ Rethrow(i)

Spec == Init /\ [][Next]_vars

\* the continuations of invocation i: every step of callService after its start
Progress(i) ==
  \/ \E r \in Responses : FetchResolve(i, r)
  \/ FetchReject(i)
  \/ JsonResolve(i)
  \/ JsonReject(i)
  \/ ReturnSuccess(i)
  \/ Catch(i)
  \/ ErrJsonResolve(i)
  \/ ErrJsonReject(i)
  \/ ReturnError(i)
  \/ Rethrow(i)

\* the steps of invocation i that wait for nothing outside the program: the
\* resumptions of callService after its awaits of handleResponse and
\* handleError, which the runtime runs as promise jobs
Continue(i) ==
  \/ ReturnSuccess(i)
  \/ Catch(i)
  \/ ReturnError(i)
  \/ Rethrow(i)

\* the hook as the tests create it, for a descriptor without headers: the
\* descriptor takes no part in the order of the steps
FairInit == Init /\ ~service.hasHeaders

\* every queued promise job runs; the network call and the decoding of the
\* body complete when the environment makes them, possibly never
FairSpec == FairInit /\ [][Next]_vars /\ \A i \in Calls : WF_vars(Continue(i))

(***************************************************************************)
(* The two versions of the hook side by side: the caller awaits every      *)
(* invocation before the next, both hooks receive the same response, and   *)
(* between invocations the caller may pick up the execute function of the  *)
(* latest render of the overwrite-style hook or keep the one it holds.     *)
(***************************************************************************)
\* both hooks are invoked, receive response r and settle
AwaitedCall(r) ==
  /\ awaited < MaxAwaited
  /\ awaited' = awaited + 1
  /\ mgState' = mergeCallService(mgState, r).state
  /\ mgLast' = mergeCallService(mgState, r).end
  /\ ovState' = overwriteCallService(ovState, ovHeld, r).state
  /\ ovLast' = overwriteCallService(ovState, ovHeld, r).end
  /\ ovStale' = (ovStale \/ ovHeld # ovState)
  /\ UNCHANGED <<ovHeld, hookVars>>

\* both hooks are invoked and fetch rejects: neither reaches its try block
AwaitedCallFails ==
  /\ awaited < MaxAwaited
  /\ awaited' = awaited + 1
  /\ mgState' = init(mgState)
  /\ mgLast' = Rejected("TransportError")
  /\ ovLast' = Rejected("TransportError")
  /\ ovStale' = (ovStale \/ ovHeld # ovState)
  /\ UNCHANGED <<ovState, ovHeld, hookVars>>

\* the caller takes the execute function of the latest render
Render ==
  /\ ovHeld # ovState
  /\ ovHeld' = ovState
  /\ UNCHANGED <<mgState, ovState, ovStale, mgLast, ovLast, awaited, hookVars>>

VersionsNext ==
  \/ \E r \in Responses : AwaitedCall(r)
  \/ AwaitedCallFails
  \/ Render

VersionsSpec == Init /\ [][VersionsNext]_vars

(***************************************************************************)
(* Vocabulary of the properties.                                           *)
(***************************************************************************)
\* invocation i settles (resolves or rejects) in this step
Settles(i) == pc[i] # "done" /\ pc'[i] = "done"

\* invocation i starts in this step
Starts(i) == pc[i] = "idle" /\ pc'[i] # "idle"

\* invocation i writes its outcome in this step (handleResponse or handleError)
WritesOutcome(i) == pc'[i] # pc[i] /\ pc'[i] \in {"hrReturned", "heReturned"}

\* invocation i runs the finally block in this step
RunsCleanup(i) == Settles(i) /\ pc[i] # "fetch"

\* fetch fulfilled invocation i with a Response
HasResponse(i) == res[i] # NoResponse

\* no invocation after i has started
Latest(i) == \A j \in Calls : j > i => pc[j] = "idle"

Pending(st) == st.isPending = JsBool(TRUE)

Success(st) == st.isSuccess = JsBool(TRUE)

\* the cells of the request state
Cells == {"isPending", "isSuccess", "data", "error"}

\* isSuccess, data and error of st are those of t
SameOutcome(st, t) ==
  st.isSuccess = t.isSuccess /\ st.data = t.data /\ st.error = t.error

\* invocation i and all invocations before it were awaited one by one
Sequential(i) == \A j \in Calls : j <= i => ~overlapped[j]

\* the request state a newly created hook has after one awaited invocation
\* that receives what invocation i received
SingleCallOutcome(i) ==
  IF ~HasResponse(i) THEN init(InitialRequestState)
  ELSE IF ~JsonDecodes(res[i].text) THEN cleanup(init(InitialRequestState))
  ELSE IF res[i].ok
    THEN cleanup(handleResponseWrite(init(InitialRequestState), JsonValue(res[i].text)))
    ELSE cleanup(handleErrorWrite(init(InitialRequestState), JsonValue(res[i].text)))

TypeOK ==
  /\ service \in Services
  /\ pc \in [Calls -> {"idle", "fetch", "json", "hrReturned", "hrThrown",
                       "errJson", "heReturned", "heThrown", "done"}]
  /\ settled \in [Calls -> {"none", "resolved", "rejected"}]
  /\ fetchCount \in 0..MaxCalls

(***************************************************************************)
(* C1: a non-overlapping invocation whose response has a success status    *)
(* and a body decoding to d resolves to {isOk: true, data: d}, and in the  *)
(* state in which it resolves isPending = false, isSuccess = true and      *)
(* data = d.                                                               *)
(***************************************************************************)
C1_SuccessResolves ==
  [][\A i \in Calls :
       (Settles(i) /\ ~overlapped[i] /\ HasResponse(i) /\ res[i].ok
          /\ JsonDecodes(res[i].text))
       => /\ settled'[i] = "resolved"
          /\ out'[i].isOk
          /\ out'[i].data = JsonValue(res[i].text)
          /\ ~Pending(requestState')
          /\ Success(requestState')
          /\ requestState'.data = JsonValue(res[i].text)]_vars

\* the second invocation resolved with a success after a first one that
\* left an error and isSuccess = false
C1_Witness ==
  /\ pc[2] = "done" /\ settled[2] = "resolved" /\ ~overlapped[2]
  /\ res[2].ok /\ out[2].isOk
  /\ pre[2].error # Undefined /\ ~Success(pre[2])

(***************************************************************************)
(* C2: a non-overlapping invocation whose response has a non-success       *)
(* status and a body decoding to e resolves (does not reject) to           *)
(* {isOk: false, error: e}, and in the state in which it resolves          *)
(* isPending = false, isSuccess = false and error = e.                     *)
(***************************************************************************)
C2_FailureResolves ==
  [][\A i \in Calls :
       (Settles(i) /\ ~overlapped[i] /\ HasResponse(i) /\ ~res[i].ok
          /\ JsonDecodes(res[i].text))
       => /\ settled'[i] = "resolved"
          /\ ~out'[i].isOk
          /\ out'[i].error = JsonValue(res[i].text)
          /\ ~Pending(requestState')
          /\ ~Success(requestState')
          /\ requestState'.error = JsonValue(res[i].text)]_vars

\* the second invocation resolved with an error result after a first one
\* that left isSuccess = true
C2_Witness ==
  /\ pc[2] = "done" /\ settled[2] = "resolved" /\ ~overlapped[2]
  /\ HasResponse(2) /\ ~res[2].ok /\ ~out[2].isOk
  /\ Success(pre[2])

(***************************************************************************)
(* C3 as stated: an invocation whose response body does not decode, with   *)
(* either status, rejects with the decoding error; in the state in which   *)
(* it rejects isPending = false and isSuccess, data and error have the     *)
(* values they had when the invocation started.                            *)
(***************************************************************************)
C3_Original ==
  [][\A i \in Calls :
       (Settles(i) /\ HasResponse(i) /\ ~JsonDecodes(res[i].text))
       => /\ settled'[i] = "rejected"
          /\ exc'[i] = "DecodeError"
          /\ ~Pending(requestState')
          /\ SameOutcome(requestState', pre[i])]_vars

(***************************************************************************)
(* C3 amended: an invocation whose response body does not decode, with     *)
(* either status, rejects with the decoding error; in the state in which   *)
(* it rejects isPending = false, the rejection itself leaves isSuccess,    *)
(* data and error as they were, and, if no other invocation overlapped it, *)
(* they have the values they had when the invocation started.              *)
(***************************************************************************)
C3_DecodeFailureRejects ==
  [][\A i \in Calls :
       (Settles(i) /\ HasResponse(i) /\ ~JsonDecodes(res[i].text))
       => /\ settled'[i] = "rejected"
          /\ exc'[i] = "DecodeError"
          /\ ~Pending(requestState')
          /\ SameOutcome(requestState', requestState)
          /\ ~overlapped[i] => SameOutcome(requestState', pre[i])]_vars

\* the second invocation, awaited after a success, rejected on an
\* undecodable body with a success status
C3_Witness ==
  /\ pc[2] = "done" /\ settled[2] = "rejected" /\ exc[2] = "DecodeError"
  /\ ~overlapped[2] /\ res[2].ok /\ ~JsonDecodes(res[2].text)
  /\ Success(pre[2]) /\ pre[2].data # Undefined

(***************************************************************************)
(* C4: before any invocation of execute, for every service descriptor,     *)
(* the request state is isPending = false, isSuccess = false, data and     *)
(* error undefined, and no network request has been issued.                *)
(***************************************************************************)
C4_InitialState ==
  (\A i \in Calls : pc[i] = "idle")
  => /\ requestState.isPending = JsFalse
     /\ requestState.isSuccess = JsFalse
     /\ requestState.data = Undefined
     /\ requestState.error = Undefined
     /\ fetchCount = 0
     /\ lastFetch = NoFetch

\* a hook created with caller-supplied headers, not yet invoked
C4_Witness ==
  /\ \A i \in Calls : pc[i] = "idle"
  /\ service.hasHeaders /\ Len(service.headers) > 1

(***************************************************************************)
(* C5: for a non-overlapping invocation, isPending is true in every state  *)
(* from its start until its outcome is written, and once the outcome is    *)
(* written isPending is false and the state holds the outcome: data with   *)
(* isSuccess = true on success, error with isSuccess = false on failure.   *)
(***************************************************************************)
C5_PendingUntilOutcome ==
  \A i \in Calls :
    (~overlapped[i] /\ Latest(i))
    => /\ pc[i] \in {"fetch", "json", "hrThrown", "errJson", "heThrown"}
            => Pending(requestState)
       /\ (pc[i] = "hrReturned" \/ (pc[i] = "done" /\ settled[i] = "resolved" /\ out[i].isOk))
            => /\ ~Pending(requestState)
               /\ Success(requestState)
               /\ requestState.data = JsonValue(res[i].text)
       /\ (pc[i] = "heReturned" \/ (pc[i] = "done" /\ settled[i] = "resolved" /\ ~out[i].isOk))
            => /\ ~Pending(requestState)
               /\ ~Success(requestState)
               /\ requestState.error = JsonValue(res[i].text)

\* the second invocation is decoding an error body while the state, which
\* was not pending when it started, shows isPending = true
C5_Witness ==
  /\ pc[2] = "errJson" /\ ~overlapped[2]
  /\ ~Pending(pre[2]) /\ Pending(requestState)

(***************************************************************************)
(* C6 as stated: execute rejects only when the response body is not valid  *)
(* JSON, and resolves with a result in every other case.                   *)
(***************************************************************************)
C6_RejectsOnlyOnInvalidJson ==
  \A i \in Calls :
    pc[i] = "done"
    => /\ settled[i] = "rejected" => (HasResponse(i) /\ ~JsonDecodes(res[i].text))
       /\ ~(HasResponse(i) /\ ~JsonDecodes(res[i].text)) => settled[i] = "resolved"

(***************************************************************************)
(* C7 as stated: when the network call fails, execute rejects with the     *)
(* network error and, in the state in which it rejects, error, data and    *)
(* isSuccess have the values they had when the invocation started.         *)
(***************************************************************************)
C7_Original ==
  [][\A i \in Calls :
       (Settles(i) /\ pc[i] = "fetch")
       => /\ settled'[i] = "rejected"
          /\ exc'[i] = "TransportError"
          /\ SameOutcome(requestState', pre[i])]_vars

(***************************************************************************)
(* C7 amended: when the network call fails, execute rejects with the       *)
(* network error; the rejection writes nothing to the request state, and,  *)
(* if no other invocation overlapped it, error, data and isSuccess have    *)
(* the values they had when the invocation started.                        *)
(***************************************************************************)
C7_TransportFailureNotRecorded ==
  [][\A i \in Calls :
       (Settles(i) /\ pc[i] = "fetch")
       => /\ settled'[i] = "rejected"
          /\ exc'[i] = "TransportError"
          /\ requestState' = requestState
          /\ ~overlapped[i] => SameOutcome(requestState', pre[i])]_vars

\* the second invocation, awaited after a success, rejected with the
\* network error
C7_Witness ==
  /\ pc[2] = "done" /\ settled[2] = "rejected" /\ exc[2] = "TransportError"
  /\ ~overlapped[2] /\ ~HasResponse(2)
  /\ Success(pre[2]) /\ pre[2].data # Undefined

(***************************************************************************)
(* C8: whatever headers the descriptor supplies, every outgoing request    *)
(* has Content-Type and Accept each with the single value                  *)
(* application/json.                                                       *)
(***************************************************************************)
C8_ForcedHeaders ==
  fetchCount > 0
  => /\ lastFetch.headers["content-type"] = <<"application/json">>
     /\ lastFetch.headers["accept"] = <<"application/json">>

\* a request was issued by a hook whose descriptor supplies Content-Type
\* twice, in two letter cases, and Accept in upper case
C8_Witness ==
  /\ fetchCount > 0
  /\ service.hasHeaders
  /\ Cardinality({k \in 1..Len(service.headers) :
                    LowerCase(service.headers[k][1]) = "content-type"}) = 2
  /\ \E k \in 1..Len(service.headers) : service.headers[k][1] = "ACCEPT"

(***************************************************************************)
(* C9 as stated: after two invocations in sequence, each awaited, the      *)
(* final state is determined by the second response alone, that is, it is  *)
(* the state a new hook has after that one invocation; and after the       *)
(* start of the second invocation isPending is true.                       *)
(***************************************************************************)
C9_Original ==
  \A i \in Calls :
    (i > 1 /\ Sequential(i) /\ Latest(i))
    => /\ pc[i] = "fetch" => Pending(requestState)
       /\ pc[i] = "done" => requestState = SingleCallOutcome(i)

(***************************************************************************)
(* C9 amended: after two invocations in sequence, each awaited, isPending, *)
(* isSuccess and the field isSuccess selects are determined by the second  *)
(* response alone when its body decodes, while the other field keeps the   *)
(* value the first invocation left; when the second body does not decode,  *)
(* isSuccess, data and error are as the first invocation left them, and    *)
(* when the second network call fails isPending also stays true.  After    *)
(* the start of the second invocation isPending is true.                   *)
(***************************************************************************)
C9_SequentialCalls ==
  \A i \in Calls :
    (i > 1 /\ Sequential(i) /\ Latest(i))
    => /\ pc[i] = "fetch" => Pending(requestState)
       /\ (pc[i] = "done" /\ HasResponse(i) /\ JsonDecodes(res[i].text) /\ res[i].ok)
            => /\ requestState.isPending = SingleCallOutcome(i).isPending
               /\ requestState.isSuccess = SingleCallOutcome(i).isSuccess
               /\ requestState.data = SingleCallOutcome(i).data
               /\ requestState.error = pre[i].error
       /\ (pc[i] = "done" /\ HasResponse(i) /\ JsonDecodes(res[i].text) /\ ~res[i].ok)
            => /\ requestState.isPending = SingleCallOutcome(i).isPending
               /\ requestState.isSuccess = SingleCallOutcome(i).isSuccess
               /\ requestState.error = SingleCallOutcome(i).error
               /\ requestState.data = pre[i].data
       /\ (pc[i] = "done" /\ HasResponse(i) /\ ~JsonDecodes(res[i].text))
            => ~Pending(requestState) /\ SameOutcome(requestState, pre[i])
       /\ (pc[i] = "done" /\ ~HasResponse(i))
            => Pending(requestState) /\ SameOutcome(requestState, pre[i])

\* the second of two awaited invocations failed after the first succeeded:
\* the state keeps the data of the first next to the error of the second
C9_Witness ==
  /\ pc[2] = "done" /\ Sequential(2) /\ Latest(2)
  /\ HasResponse(2) /\ ~res[2].ok /\ JsonDecodes(res[2].text)
  /\ Success(pre[2]) /\ pre[2].data # Undefined
  /\ requestState.data = pre[2].data /\ requestState.error # Undefined

(***************************************************************************)
(* C10 as stated: the outgoing request carries the JSON serialization of   *)
(* the body argument whenever an argument is provided, and carries no body *)
(* only when no argument is provided.                                      *)
(***************************************************************************)
C10_BodySerialized ==
  fetchCount > 0
  => /\ lastArg # Undefined
          => lastFetch.body = [present |-> TRUE, text |-> JSONstringify(lastArg)]
     /\ ~lastFetch.body.present => lastArg = Undefined

(***************************************************************************)
(* C11: when execute is invoked while another invocation is in flight, the *)
(* start of the second leaves the first where it was, every invocation in  *)
(* flight can always take its next step, and once all have settled each of *)
(* isSuccess, data and error holds the value of whichever invocation wrote *)
(* that cell last.                                                         *)
(***************************************************************************)
C11_LastWriteWins ==
  /\ [](\A i \in Calls : InFlight(i) => ENABLED Progress(i))
  /\ [](((\A i \in Calls : ~InFlight(i)) /\ (\E i \in Calls : overlapped[i]))
          => /\ requestState.isSuccess = writes.isSuccess.value
             /\ requestState.data = writes.data.value
             /\ requestState.error = writes.error.value)
  /\ [][\A i, j \in Calls :
          (i # j /\ pc[j] = "idle" /\ pc'[j] # "idle")
          => /\ pc'[i] = pc[i] /\ res'[i] = res[i] /\ exc'[i] = exc[i]
             /\ ret'[i] = ret[i] /\ settled'[i] = settled[i] /\ out'[i] = out[i]]_vars

\* two overlapping invocations have settled; the one started first wrote
\* isSuccess and data last, the one started second wrote error
C11_Witness ==
  /\ pc[1] = "done" /\ pc[2] = "done" /\ overlapped[1] /\ overlapped[2]
  /\ writes.isSuccess.by = 1 /\ writes.data.by = 1 /\ writes.error.by = 2
  /\ Success(requestState) /\ requestState.error # Undefined

(***************************************************************************)
(* C12: every invocation of execute issues exactly one network request,    *)
(* whatever its outcome: the number of requests issued equals the number   *)
(* of invocations started, and a request is issued only by the start of an *)
(* invocation, never again by a later step.                                *)
(***************************************************************************)
C12_OneRequestPerCall ==
  /\ [](fetchCount = Cardinality({i \in Calls : pc[i] # "idle"}))
  /\ [][(fetchCount' # fetchCount \/ lastFetch' # lastFetch)
          => /\ fetchCount' = fetchCount + 1
             /\ \E i \in Calls : pc[i] = "idle" /\ pc'[i] = "fetch"]_vars

\* two invocations have settled, one on a transport failure and one on a
\* decode failure, and two requests have been issued
C12_Witness ==
  /\ fetchCount = 2
  /\ pc[1] = "done" /\ exc[1] = "TransportError"
  /\ pc[2] = "done" /\ exc[2] = "DecodeError"

(***************************************************************************)
(* C13 as stated: the start of an invocation changes only isPending, to    *)
(* true, and while the invocation waits for its response data, error and   *)
(* isSuccess have the values they had when it started.                     *)
(***************************************************************************)
C13_Original ==
  [][\A i \in Calls :
       /\ Starts(i) => requestState' = [requestState EXCEPT !.isPending = JsBool(TRUE)]
       /\ pc'[i] = "fetch" => SameOutcome(requestState', pre'[i])]_vars

(***************************************************************************)
(* C13 amended: the start of an invocation changes only isPending, to      *)
(* true, and while the invocation waits for its response data, error and   *)
(* isSuccess have the values they had when it started, provided no other   *)
(* invocation overlaps it.                                                 *)
(***************************************************************************)
C13_StartChangesOnlyPending ==
  [][\A i \in Calls :
       /\ Starts(i) => requestState' = [requestState EXCEPT !.isPending = JsBool(TRUE)]
       /\ (pc'[i] = "fetch" /\ ~overlapped'[i])
            => SameOutcome(requestState', pre'[i])]_vars

\* the second invocation waits for its response; the state shows the
\* success and data of the first next to isPending = true
C13_Witness ==
  /\ pc[2] = "fetch" /\ ~overlapped[2]
  /\ Pending(requestState) /\ Success(requestState)
  /\ requestState.data # Undefined

(***************************************************************************)
(* C14: a call of the merge setter changes exactly the cells whose field   *)
(* in the partial is not undefined, to the given values, and leaves every  *)
(* other cell unchanged; the request state changes only in a step that     *)
(* calls the setter.                                                       *)
(***************************************************************************)
C14_MergeSetter ==
  [][IF setterCalls' = setterCalls
       THEN requestState' = requestState
       ELSE /\ setterCalls' = setterCalls + 1
            /\ \A f \in Cells :
                 /\ lastPartial'[f] # Undefined => requestState'[f] = lastPartial'[f]
                 /\ lastPartial'[f] = Undefined => requestState'[f] = requestState[f]]_vars

\* the setter was last called with isPending alone, and the cells it was
\* not given hold an earlier success, data and error
C14_Witness ==
  /\ setterCalls > 3
  /\ lastPartial.isPending # Undefined /\ lastPartial.isSuccess = Undefined
  /\ lastPartial.data = Undefined /\ lastPartial.error = Undefined
  /\ Success(requestState)
  /\ requestState.data # Undefined /\ requestState.error # Undefined

C16_NotPendingWhenAllSettled ==
  (\A i \in Calls : ~InFlight(i)) => ~Pending(requestState)

(***************************************************************************)
(* C17 as stated: under overlapping invocations, isPending is true in      *)
(* every state in which at least one invocation is still in flight.        *)
(***************************************************************************)
C17_Original ==
  (\E i \in Calls : InFlight(i) /\ overlapped[i]) => Pending(requestState)

(***************************************************************************)
(* C17 amended: under overlapping invocations isPending holds the value of *)
(* the latest write: every start sets it to true, and every outcome write  *)
(* and every cleanup of any invocation sets it to false, also while        *)
(* another invocation is still in flight; it is true throughout the wait   *)
(* of an invocation, up to its outcome write, only when no other           *)
(* invocation overlaps it.                                                 *)
(***************************************************************************)
C17_PendingIsLastWrite ==
  [][\A i \in Calls :
       /\ Starts(i) => Pending(requestState')
       /\ WritesOutcome(i) => ~Pending(requestState')
       /\ RunsCleanup(i) => ~Pending(requestState')
       /\ (~overlapped'[i]
             /\ pc'[i] \in {"fetch", "json", "hrThrown", "errJson", "heThrown"})
            => Pending(requestState')]_vars

\* the first invocation has completed while the second, started before
\* that, still waits for its response: isPending is false
C17_Witness ==
  /\ pc[1] = "done" /\ settled[1] = "resolved"
  /\ pc[2] = "fetch" /\ overlapped[2]
  /\ ~Pending(requestState)

(***************************************************************************)
(* C18: a rejection of execute carries the decoding error or the transport *)
(* error, never the internal ServiceRequestError, and a non-success status *)
(* with a decodable body always ends in a resolved result with             *)
(* isOk = false.                                                           *)
(***************************************************************************)
C18_ServiceRequestErrorInternal ==
  \A i \in Calls :
    /\ settled[i] = "rejected" => exc[i] \in {"DecodeError", "TransportError"}
    /\ (pc[i] = "done" /\ HasResponse(i) /\ ~res[i].ok /\ JsonDecodes(res[i].text))
         => settled[i] = "resolved" /\ ~out[i].isOk

\* both invocations received a non-success status: one resolved with an
\* error result, the other rejected with the decoding error
C18_Witness ==
  /\ pc[1] = "done" /\ HasResponse(1) /\ ~res[1].ok
  /\ settled[1] = "resolved" /\ ~out[1].isOk
  /\ pc[2] = "done" /\ HasResponse(2) /\ ~res[2].ok
  /\ settled[2] = "rejected" /\ exc[2] = "DecodeError"

(***************************************************************************)
(* C19: in every state data is the body decoded from the success-status    *)
(* response that was decoded most recently, undefined if there was none,   *)
(* and error is the body decoded from the non-success-status response that *)
(* was decoded most recently, undefined if there was none; data and error  *)
(* change in no other step, and neither returns to undefined once set.     *)
(***************************************************************************)
C19_DataAndErrorAreLatestDecoded ==
  /\ [](/\ requestState.data = writes.data.value
        /\ requestState.error = writes.error.value)
  /\ [][/\ requestState'.data # requestState.data
            => \E i \in Calls :
                 /\ pc[i] = "json" /\ pc'[i] = "hrReturned" /\ res[i].ok
                 /\ requestState'.data = JsonValue(res[i].text)
        /\ requestState'.error # requestState.error
            => \E i \in Calls :
                 /\ pc[i] = "errJson" /\ pc'[i] = "heReturned" /\ ~res[i].ok
                 /\ requestState'.error = JsonValue(res[i].text)
        /\ requestState.data # Undefined => requestState'.data # Undefined
        /\ requestState.error # Undefined => requestState'.error # Undefined]_vars

\* overlapping invocations: data comes from the invocation started first,
\* error from the one started second, and both have settled
C19_Witness ==
  /\ pc[1] = "done" /\ pc[2] = "done" /\ overlapped[2]
  /\ writes.data.by = 1 /\ writes.error.by = 2
  /\ requestState.data = JsonValue(res[1].text)
  /\ requestState.error = JsonValue(res[2].text)

(***************************************************************************)
(* C20: in every state, isSuccess = true implies that data is not          *)
(* undefined.                                                              *)
(***************************************************************************)
C20_SuccessHasData ==
  Success(requestState) => requestState.data # Undefined

\* isSuccess is true with data stored while an overlapping invocation has
\* already stored an error
C20_Witness ==
  /\ Success(requestState) /\ requestState.data # Undefined
  /\ requestState.error # Undefined
  /\ \E i \in Calls : overlapped[i] /\ InFlight(i)

(***************************************************************************)
(* C21 as stated: once an invocation has written its outcome, no step of   *)
(* another invocation, in particular no start of another invocation,       *)
(* occurs before that invocation's final isPending = false write and its   *)
(* return.                                                                 *)
(***************************************************************************)
C21_Original ==
  [][\A i, j \in Calls :
       (i # j /\ pc[i] \in {"hrReturned", "heReturned"}) => pc'[j] = pc[j]]_vars

(***************************************************************************)
(* C21 amended: an invocation also yields at `await handleResponse(res)`   *)
(* and `await handleError(e)`. The outcome write sets isPending = false    *)
(* and leaves the invocation suspended and unsettled; its next step is the *)
(* one that runs cleanup and returns: it writes isPending = false last and *)
(* resolves in the same step, whatever other invocations did in between.   *)
(***************************************************************************)
C21_OutcomeThenCleanup ==
  [][\A i \in Calls :
       /\ WritesOutcome(i)
            => /\ ~Pending(requestState')
               /\ settled'[i] = "none"
               /\ InFlight(i)'
       /\ (pc[i] \in {"hrReturned", "heReturned"} /\ pc'[i] # pc[i])
            => /\ Settles(i)
               /\ settled'[i] = "resolved"
               /\ lastPartial' = CleanupPartial
               /\ ~Pending(requestState')]_vars

\* the first invocation has written its success outcome and has not
\* returned yet; the second started after that write and set isPending
C21_Witness ==
  /\ pc[1] = "hrReturned" /\ writes.data.by = 1
  /\ pc[2] = "fetch"
  /\ Success(pre[2]) /\ ~Pending(pre[2])
  /\ Pending(requestState)

\* the network call and every decoding of invocation i have completed and
\* the invocation has not settled yet
ExternalDone(i) ==
  \/ pc[i] \in {"hrReturned", "heReturned", "heThrown"}
  \/ pc[i] = "hrThrown" /\ exc[i] = "DecodeError"

(***************************************************************************)
(* C22: under fairness of the program's own continuations, an invocation   *)
(* whose network call and body decoding have completed eventually settles, *)
(* resolved or rejected (a transport failure settles it in the step that   *)
(* reports it, a non-success status leads to the decoding of the error     *)
(* body); an invocation that stays at its network call does not settle and *)
(* writes nothing: while it waits, the state changes only in steps of      *)
(* other invocations, and its start left isPending = true.                 *)
(***************************************************************************)
C22_SettlesUnlessHung ==
  /\ \A i \in Calls :
       /\ ExternalDone(i) ~> (pc[i] = "done" /\ settled[i] # "none")
       /\ (pc[i] = "hrThrown" /\ exc[i] = "ServiceRequestError")
            ~> (pc[i] \in {"errJson", "heReturned", "heThrown", "done"})
  /\ [][\A i \in Calls :
          /\ Starts(i) => pc'[i] = "fetch" /\ Pending(requestState')
          /\ (pc[i] = "fetch" /\ exc'[i] = "TransportError")
               => pc'[i] = "done" /\ settled'[i] = "rejected"
          /\ (pc[i] = "fetch" /\ pc'[i] = "fetch")
               => /\ settled'[i] = "none"
                  /\ requestState' # requestState
                       => \E j \in Calls : j # i /\ pc'[j] # pc[j]]_vars

\* the first invocation has settled with a result and the second, started
\* after that, waits for its network call with isPending = true
C22_Witness ==
  /\ pc[1] = "done" /\ settled[1] = "resolved" /\ ~overlapped[1]
  /\ pc[2] = "fetch" /\ settled[2] = "none"
  /\ Pending(requestState)

\* the two hooks returned the same to the caller and show the same outcome
VersionsAgree ==
  /\ mgLast = ovLast
  /\ SameOutcome(mgState, ovState)

(***************************************************************************)
(* C23 as stated: after every sequence of awaited invocations the          *)
(* overwrite-style hook and the merge-style hook have returned results     *)
(* with the same isOk, data and error and hold the same isSuccess, data    *)
(* and error, whichever render's execute function the caller used.         *)
(***************************************************************************)
C23_Original == VersionsAgree

(***************************************************************************)
(* C23 amended: the two hooks agree on results and on isSuccess, data and  *)
(* error after every sequence of awaited invocations in which each         *)
(* invocation went through an execute function whose captured state was    *)
(* the current state (the function of the latest render); and they always  *)
(* agree on what is returned to the caller.                                *)
(***************************************************************************)
C23_AgreeOnLatestRender ==
  /\ mgLast = ovLast
  /\ ~ovStale => VersionsAgree

\* a success followed by a failure, each through the function of the
\* latest render: both hooks show isSuccess = false, the data and the error
C23_Witness ==
  /\ awaited >= 2 /\ ~ovStale
  /\ ovLast.settled = "resolved" /\ ~ovLast.out.isOk
  /\ ~Success(ovState) /\ ~Success(mgState)
  /\ ovState.data # Undefined /\ ovState.error # Undefined

\* the composed merge-style invocation is what the steps of callService do
\* when no other invocation overlaps
MergeCallServiceIsSequentialRun ==
  \A i \in Calls :
    (/\ pc[i] = "done" /\ HasResponse(i) /\ ~overlapped[i]
     /\ \A j \in Calls : j > i => pc[j] = "idle")
      => /\ requestState = mergeCallService(pre[i], res[i]).state
         /\ settled[i] = mergeCallService(pre[i], res[i]).end.settled
         /\ settled[i] = "resolved" => out[i] = mergeCallService(pre[i], res[i]).end.out

====
